---- MODULE Spec2Model ----
(***************************************************************************)
(* talkie: a two-party push-to-talk voice link.                            *)
(*   src/c_end.py  the Caller   (WebRTCClient, AudioInputTrack, __main__)  *)
(*   src/s_end.py  the Responder (WebRTCServer, __main__)                  *)
(*                                                                         *)
(* The module holds three groups of state (audio track, signaling,         *)
(* playback) and these specifications:                                     *)
(*   SpecPTT        AudioInputTrack: the gate, recv(), set_ptt(), stop()   *)
(*                  against the keyboard thread.                           *)
(*   SpecCaller,    one endpoint's bus callbacks and coroutines, the bus   *)
(*   SpecResponder  thread free to call them with any message.             *)
(*   Spec           both processes and the broker, from start to exit.     *)
(*   SpecLive       the description exchange on a healthy bus, with weak   *)
(*                  fairness.                                              *)
(*   SpecPlay       inbound tracks and their playback tasks.               *)
(***************************************************************************)
EXTENDS Integers, Sequences, FiniteSets, TLC

\* ------------------------------------------------------------------ bounds
\* samples per chunk (scaled down from the program's 960)
CHUNK == 1
\* recv() calls made by the transport engine
MaxPulls == 3
\* stop() invocations on the audio track
MaxStops == 2
\* on_connect invocations per endpoint (the first connection and reconnections)
MaxConnects == 2
\* on_message invocations the open environment makes per endpoint
MaxMsgs == 2
\* candidate messages other participants publish during the exchange
MaxIce == 2
\* inbound-track notifications per endpoint
MaxNotify == 2
\* frames an inbound track delivers before its stream ends
MaxFrames == 2

\* ------------------------------------------------ AudioInputTrack (c_end.py)
VARIABLES
  is_active,      \* self.is_active
  lock,           \* self.lock: "free", or the thread that holds it
  stream,         \* self.stream's device state: "open" | "closed"
  recv_pc,        \* the frame-pull coroutine: "idle" | "37" | "39" | "40"
  pts,            \* the timestamp the pending recv() got at line 37
  calls,          \* recv() calls started
  frame,          \* the frame the last recv() returned, or NoFrame
  pulls,          \* frames returned
  reads,          \* stream.read() calls made
  kbd_pc,         \* keyboard thread: "168" | "63" | "64" | "65"
  kbd_arg,        \* the argument of the set_ptt call in progress
  stops,          \* stop() invocations
  stop_stream_calls, close_calls, terminate_calls,
  stop_raised,    \* a stop() invocation ended in an exception
  g_gate,         \* history: argument of the most recent completed set_ptt
  g_read_gate,    \* history: g_gate when the last pull read is_active
  g_data          \* history: the chunk the device handed to the last pull

audio_vars == <<is_active, lock, stream, recv_pc, pts, calls, frame, pulls,
                reads, kbd_pc, kbd_arg, stops, stop_stream_calls, close_calls,
                terminate_calls, stop_raised, g_gate, g_read_gate, g_data>>

\* --------------------------- signaling, per endpoint: "C" Caller, "S" Responder
VARIABLES
  main,        \* __main__'s position in each process
  loop,        \* the asyncio event loop: "new" | "running" | "stopped" | "closed"
  net,         \* the bus client's network thread: "off" | "running" | "dead" | "stopped"
  connected,   \* the bus client holds a broker connection
  connects,    \* on_connect invocations so far
  subs,        \* the topics the broker holds a subscription for
  inbox,       \* messages the broker forwarded, not yet handed to on_message
  loopq,       \* callbacks queued by call_soon_threadsafe
  tasks,       \* coroutines scheduled by ensure_future, not yet finished
  sess,        \* the Session (RTCPeerConnection) as the spec describes it
  published,   \* mqtt_client.publish calls made
  rx,          \* negotiation messages handed to on_message (offers on S, answers on C)
  failed,      \* coroutines ended by an exception
  injected,    \* on_message invocations made by the open environment
  foreign,     \* messages published by other bus participants
  ice          \* candidate messages on_message took to its pass branch

sig_vars == <<main, loop, net, connected, connects, subs, inbox, loopq, tasks,
              sess, published, rx, failed, injected, foreign, ice>>

\* ------------------------------------------------- playback, per endpoint
VARIABLES
  players,     \* play_audio tasks: their bound track and position
  player_task, \* self.player_task: index of the task on_track stored last
  notified,    \* on_track notifications delivered
  outputs,     \* output devices opened so far
  trk_next     \* per inbound track: frames already pulled from it

play_vars == <<players, player_task, notified, outputs, trk_next>>

vars == <<audio_vars, sig_vars, play_vars>>

NoFrame == [planes |-> <<>>, pts |-> -1]
NoData == <<>>

\* the values a device byte takes in the model
Bytes == {0, 1, 255}

\* what stream.read(CHUNK) can hand back: CHUNK 16-bit samples, 2 bytes each
DeviceChunks == [1..(2 * CHUNK) -> Bytes]

\* bytes(CHUNK * 2), c_end.py:44
SilenceBytes == [i \in 1..(2 * CHUNK) |-> 0]

AllZero(bs) == \A i \in 1..Len(bs) : bs[i] = 0

\* np.frombuffer(data, dtype=np.int16): little-endian signed 16-bit
frombuffer(data) ==
  [i \in 1..(Len(data) \div 2) |->
     LET u == data[2 * i - 1] + 256 * data[2 * i]
     IN  IF u >= 32768 THEN u - 65536 ELSE u]

\* array.tobytes()
tobytes(array) ==
  [j \in 1..(2 * Len(array)) |->
     LET v == array[(j + 1) \div 2] % 65536
     IN  IF j % 2 = 1 THEN v % 256 ELSE v \div 256]

\* MediaStreamTrack.next_timestamp: a frame counter advanced by the chunk size
next_timestamp(n) == n * CHUNK

\* AudioFrame(format='s16', layout='mono', samples=CHUNK) with plane.update(b)
AudioFrame(b, t) == [planes |-> b, pts |-> t]

AudioInit ==
  /\ is_active = FALSE
  /\ lock = "free"
  /\ stream = "open"
  /\ recv_pc = "idle"
  /\ pts = 0
  /\ calls = 0
  /\ frame = NoFrame
  /\ pulls = 0
  /\ reads = 0
  /\ kbd_pc = "168"
  /\ kbd_arg = FALSE
  /\ stops = 0
  /\ stop_stream_calls = 0
  /\ close_calls = 0
  /\ terminate_calls = 0
  /\ stop_raised = FALSE
  /\ g_gate = FALSE
  /\ g_read_gate = FALSE
  /\ g_data = NoData

\* a recv() that takes the gate lock before it awaits the timestamp
RecvCall_LockFirst ==
  /\ UNCHANGED <<sig_vars, play_vars>>
  /\ recv_pc = "idle"
  /\ calls < MaxPulls
  /\ lock = "free"
  /\ lock' = "recv"
  /\ calls' = calls + 1
  /\ recv_pc' = "37"
  /\ UNCHANGED <<is_active, stream, pts, frame, pulls, reads, kbd_pc,
                 kbd_arg, stops, stop_stream_calls, close_calls,
                 terminate_calls, stop_raised, g_gate, g_read_gate, g_data>>

\* the transport engine calls recv(); the coroutine suspends at line 37
RecvCall ==
  /\ UNCHANGED <<sig_vars, play_vars>>
  /\ recv_pc = "idle"
  /\ calls < MaxPulls
  /\ calls' = calls + 1
  /\ recv_pc' = "37"
  /\ UNCHANGED <<is_active, lock, stream, pts, frame, pulls, reads, kbd_pc,
                 kbd_arg, stops, stop_stream_calls, close_calls,
                 terminate_calls, stop_raised, g_gate, g_read_gate, g_data>>

\* line 37: pts, time_base = await self.next_timestamp()
RecvTimestamp ==
  /\ UNCHANGED <<sig_vars, play_vars>>
  /\ recv_pc = "37"
  /\ pts' = next_timestamp(calls)
  /\ recv_pc' = "39"
  /\ UNCHANGED <<is_active, lock, stream, calls, frame, pulls, reads, kbd_pc,
                 kbd_arg, stops, stop_stream_calls, close_calls,
                 terminate_calls, stop_raised, g_gate, g_read_gate, g_data>>

\* line 39: with self.lock (blocks the loop thread until the lock is free)
RecvAcquire ==
  /\ UNCHANGED <<sig_vars, play_vars>>
  /\ recv_pc = "39"
  /\ lock = "free"
  /\ lock' = "recv"
  /\ recv_pc' = "40"
  /\ UNCHANGED <<is_active, stream, pts, calls, frame, pulls, reads, kbd_pc,
                 kbd_arg, stops, stop_stream_calls, close_calls,
                 terminate_calls, stop_raised, g_gate, g_read_gate, g_data>>


\* a recv() that reads the capture device before it looks at the gate
RecvBody_ReadFirst ==
  /\ UNCHANGED <<sig_vars, play_vars>>
  /\ recv_pc = "40"
  /\ recv_pc' = "idle"
  /\ lock' = "free"
  /\ g_read_gate' = g_gate
  /\ reads' = reads + 1
  /\ IF stream = "open"
     THEN \E data \in DeviceChunks :
            /\ frame' = IF is_active THEN AudioFrame(tobytes(frombuffer(data)), pts)
                        ELSE AudioFrame(SilenceBytes, pts)
            /\ g_data' = IF is_active THEN data ELSE NoData
            /\ pulls' = pulls + 1
     ELSE /\ frame' = NoFrame
          /\ g_data' = NoData
          /\ UNCHANGED pulls
  /\ UNCHANGED <<is_active, stream, pts, calls, kbd_pc, kbd_arg, stops,
                 stop_stream_calls, close_calls, terminate_calls, stop_raised,
                 g_gate>>

\* lines 40-60: the body under the lock, up to the return (the lock is
\* released on leaving the with block).  A read of a closed stream raises.
RecvBody ==
  /\ UNCHANGED <<sig_vars, play_vars>>
  /\ recv_pc = "40"
  /\ recv_pc' = "idle"
  /\ lock' = "free"
  /\ g_read_gate' = g_gate
  /\ IF ~is_active
     THEN /\ frame' = AudioFrame(SilenceBytes, pts)
          /\ pulls' = pulls + 1
          /\ g_data' = NoData
          /\ UNCHANGED reads
     ELSE /\ reads' = reads + 1
          /\ IF stream = "open"
             THEN \E data \in DeviceChunks :
                    /\ frame' = AudioFrame(tobytes(frombuffer(data)), pts)
                    /\ g_data' = data
                    /\ pulls' = pulls + 1
             ELSE /\ frame' = NoFrame
                  /\ g_data' = NoData
                  /\ UNCHANGED pulls
  /\ UNCHANGED <<is_active, stream, pts, calls, kbd_pc, kbd_arg, stops,
                 stop_stream_calls, close_calls, terminate_calls, stop_raised,
                 g_gate>>

\* keyboard_listener, lines 167-171: poll the key, call set_ptt(pressed)
KbdPoll ==
  /\ UNCHANGED <<sig_vars, play_vars>>
  /\ kbd_pc = "168"
  /\ \E pressed \in BOOLEAN : kbd_arg' = pressed
  /\ kbd_pc' = "63"
  /\ UNCHANGED <<is_active, lock, stream, recv_pc, pts, calls, frame, pulls,
                 reads, stops, stop_stream_calls, close_calls, terminate_calls,
                 stop_raised, g_gate, g_read_gate, g_data>>

\* a set_ptt that does not take the lock
KbdAcquire_NoLock ==
  /\ UNCHANGED <<sig_vars, play_vars>>
  /\ kbd_pc = "63"
  /\ kbd_pc' = "64"
  /\ UNCHANGED <<is_active, lock, stream, recv_pc, pts, calls, frame, pulls,
                 reads, kbd_arg, stops, stop_stream_calls, close_calls,
                 terminate_calls, stop_raised, g_gate, g_read_gate, g_data>>

\* set_ptt line 63: with self.lock
KbdAcquire ==
  /\ UNCHANGED <<sig_vars, play_vars>>
  /\ kbd_pc = "63"
  /\ lock = "free"
  /\ lock' = "kbd"
  /\ kbd_pc' = "64"
  /\ UNCHANGED <<is_active, stream, recv_pc, pts, calls, frame, pulls, reads,
                 kbd_arg, stops, stop_stream_calls, close_calls,
                 terminate_calls, stop_raised, g_gate, g_read_gate, g_data>>

\* set_ptt line 64: self.is_active = active
KbdWrite ==
  /\ UNCHANGED <<sig_vars, play_vars>>
  /\ kbd_pc = "64"
  /\ is_active' = kbd_arg
  /\ kbd_pc' = "65"
  /\ UNCHANGED <<lock, stream, recv_pc, pts, calls, frame, pulls, reads,
                 kbd_arg, stops, stop_stream_calls, close_calls,
                 terminate_calls, stop_raised, g_gate, g_read_gate, g_data>>

\* set_ptt leaves the with block and returns: the call is complete
KbdRelease ==
  /\ UNCHANGED <<sig_vars, play_vars>>
  /\ kbd_pc = "65"
  /\ lock' = "free"
  /\ g_gate' = kbd_arg
  /\ kbd_pc' = "168"
  /\ UNCHANGED <<is_active, stream, recv_pc, pts, calls, frame, pulls, reads,
                 kbd_arg, stops, stop_stream_calls, close_calls,
                 terminate_calls, stop_raised, g_read_gate, g_data>>

\* what stream.stop_stream() can do: on an open stream it stops it; on a
\* stream that was closed before, the device library either raises or
\* lets the call through
StopOutcomes == IF stream = "open" THEN {"ok"} ELSE {"ok", "raise"}

\* AudioInputTrack.stop, lines 66-70.  self.stream is never reset, so the
\* test at line 67 is true on every invocation.
stop ==
  /\ stops' = stops + 1
  /\ \E outcome \in StopOutcomes :
       IF outcome = "ok"
       THEN /\ stop_stream_calls' = stop_stream_calls + 1
            /\ close_calls' = close_calls + 1
            /\ terminate_calls' = terminate_calls + 1
            /\ stream' = "closed"
            /\ UNCHANGED stop_raised
       ELSE /\ stop_stream_calls' = stop_stream_calls + 1
            /\ stop_raised' = TRUE
            /\ UNCHANGED <<close_calls, terminate_calls, stream>>
  /\ UNCHANGED <<is_active, lock, recv_pc, pts, calls, frame, pulls, reads,
                 kbd_pc, kbd_arg, g_gate, g_read_gate, g_data>>

\* the owner of the track calls stop().  stop() runs on the loop thread, so
\* never inside the synchronous part of recv().
AudioStop ==
  /\ stops < MaxStops
  /\ recv_pc \in {"idle", "37"}
  /\ stop
  /\ UNCHANGED <<sig_vars, play_vars>>

\* ------------------------------------------------------------- signaling
E == {"C", "S"}

OFFER_TOPIC == "walkie-talkie/offer"
ANSWER_TOPIC == "walkie-talkie/answer"
ICE_TOPIC == "walkie-talkie/ice"
Topics == {OFFER_TOPIC, ANSWER_TOPIC, ICE_TOPIC}

\* payloads on the wire: a well-formed session description, text that is
\* none (a candidate line), the empty payload, and bytes that are not UTF-8
SDP == "v=0"
InvalidUtf8 == "<0xff>"
Payloads == {SDP, "candidate", "", InvalidUtf8}
Messages == [topic : Topics, payload : Payloads]

\* msg.payload.decode() raises UnicodeDecodeError on bytes that are not UTF-8
Decodable(payload) == payload # InvalidUtf8
\* the transport engine parses the description text when it is applied
WellFormed(sdp) == sdp = SDP

\* the Session: the spec's localDescriptionSet / remoteDescriptionSet, the
\* engine's signaling state, whether close() was called, and how often each
\* description was set and how many descriptions the engine created
NewSession == [local |-> FALSE, remote |-> FALSE, sig |-> "stable",
               state |-> "open", nLocal |-> 0, nRemote |-> 0, nCreate |-> 0]

SigInit ==
  /\ main = [e \in E |-> "start"]
  /\ loop = [e \in E |-> "new"]
  /\ net = [e \in E |-> "off"]
  /\ connected = [e \in E |-> FALSE]
  /\ connects = [e \in E |-> 0]
  /\ subs = [e \in E |-> {}]
  /\ inbox = [e \in E |-> <<>>]
  /\ loopq = [e \in E |-> <<>>]
  /\ tasks = [e \in E |-> <<>>]
  /\ sess = [e \in E |-> NewSession]
  /\ published = [e \in E |-> 0]
  /\ rx = [e \in E |-> 0]
  /\ failed = [e \in E |-> 0]
  /\ injected = [e \in E |-> 0]
  /\ foreign = 0
  /\ ice = [e \in E |-> 0]

\* the engine builds a description of the Session; it is not applied yet
createOffer(s) == [s EXCEPT !.nCreate = @ + 1]
createAnswer(s) == [s EXCEPT !.nCreate = @ + 1]
\* the engine records the description and moves its signaling state
setLocalDescription(s, type) ==
  [s EXCEPT !.local = TRUE, !.nLocal = @ + 1,
            !.sig = IF type = "offer" THEN "have-local-offer" ELSE "stable"]
setRemoteDescription(s, type) ==
  [s EXCEPT !.remote = TRUE, !.nRemote = @ + 1,
            !.sig = IF type = "offer" THEN "have-remote-offer" ELSE "stable"]

\* ---- the bus callbacks (they run on the bus client's network thread)

\* WebRTCClient.on_connect, c_end.py:123-125: the new callback queue
WebRTCClient_on_connect(q) == Append(q, [fn |-> "create_offer_task", sdp |-> ""])

\* WebRTCServer.on_connect, s_end.py:69-71: the new set of subscriptions
WebRTCServer_on_connect(topics) == topics \cup {OFFER_TOPIC, ICE_TOPIC}

\* WebRTCClient.on_message, c_end.py:135-140: the new callback queue
WebRTCClient_on_message(q, msg) ==
  IF msg.topic = ANSWER_TOPIC
  THEN Append(q, [fn |-> "handle_answer_task", sdp |-> msg.payload])
  ELSE q

\* a Responder that starts a handler for candidate messages as well
WebRTCServer_on_message_IceTask(q, msg) ==
  IF msg.topic \in {OFFER_TOPIC, ICE_TOPIC}
  THEN Append(q, [fn |-> "handle_offer_task", sdp |-> msg.payload])
  ELSE q

\* WebRTCServer.on_message, s_end.py:73-80: the new callback queue
WebRTCServer_on_message(q, msg) ==
  IF msg.topic = OFFER_TOPIC
  THEN Append(q, [fn |-> "handle_offer_task", sdp |-> msg.payload])
  ELSE q

\* the topic whose messages start a negotiation handler on endpoint e
HandledTopic(e) == IF e = "C" THEN ANSWER_TOPIC ELSE OFFER_TOPIC

\* an on_message that applies the description it received by itself, on the
\* bus thread, instead of handing it to the event loop
on_message_Direct(e, msg) ==
  IF Decodable(msg.payload)
  THEN /\ sess' = [sess EXCEPT ![e] =
                     IF msg.topic = HandledTopic(e)
                     THEN setRemoteDescription(@, IF e = "C" THEN "answer" ELSE "offer")
                     ELSE @]
       /\ rx' = [rx EXCEPT ![e] = IF msg.topic = HandledTopic(e) THEN @ + 1 ELSE @]
       /\ ice' = [ice EXCEPT ![e] = IF msg.topic = ICE_TOPIC THEN @ + 1 ELSE @]
       /\ UNCHANGED <<net, loopq, tasks, published>>
  ELSE /\ net' = [net EXCEPT ![e] = "dead"]
       /\ UNCHANGED <<loopq, rx, ice, tasks, sess, published>>

\* the bus thread runs on_message(msg): line 136 / 74 decodes first, and an
\* exception in a callback ends the network thread; all the callback does
\* otherwise is call_soon_threadsafe
on_message(e, msg) ==
  IF Decodable(msg.payload)
  THEN /\ loopq' = [loopq EXCEPT ![e] =
                      IF e = "C" THEN WebRTCClient_on_message(@, msg)
                                 ELSE WebRTCServer_on_message(@, msg)]
       /\ rx' = [rx EXCEPT ![e] = IF msg.topic = HandledTopic(e) THEN @ + 1 ELSE @]
       /\ ice' = [ice EXCEPT ![e] = IF msg.topic = ICE_TOPIC THEN @ + 1 ELSE @]
       /\ UNCHANGED <<net, tasks, sess, published>>
  ELSE /\ net' = [net EXCEPT ![e] = "dead"]
       /\ UNCHANGED <<loopq, rx, ice, tasks, sess, published>>

\* ---- the coroutines (they run on the event loop, one step per await)

\* what one step of a coroutine leaves behind: the line it is suspended at
\* (0: returned or raised), the session, the messages it published
Step(pc, s, out, raised) == [pc |-> pc, sess |-> s, out |-> out, raised |-> raised]
Raise(s) == Step(0, s, <<>>, TRUE)

\* the engine refuses every operation on a connection that is being closed
\* or is closed; otherwise ok is what the engine answers
EngineOk(s, ok) == ok /\ s.state = "open"

\* the engine's offer/answer rules: a description is accepted only in the
\* signaling states that allow its type
CanSetLocal(s, type) ==
  IF type = "offer" THEN s.sig \in {"stable", "have-local-offer"}
  ELSE s.sig = "have-remote-offer"
CanSetRemote(s, type) ==
  IF type = "offer" THEN s.sig \in {"stable", "have-remote-offer"}
  ELSE s.sig = "have-local-offer"
CanCreateAnswer(s) == s.sig = "have-remote-offer"

\* create_offer_task / handle_answer_task / handle_offer_task:
\* asyncio.ensure_future(coroutine): the task, before its first step
create_offer_task == [kind |-> "create_offer", pc |-> 131, sdp |-> ""]
handle_answer_task(sdp) == [kind |-> "handle_answer", pc |-> 147, sdp |-> sdp]
handle_offer_task(sdp) == [kind |-> "handle_offer", pc |-> 88, sdp |-> sdp]

\* a create_offer that publishes the offer it created before it is set as
\* the local description
create_offer_PublishFirst(t, s, ok) ==
  IF ~EngineOk(s, ok) THEN Raise(s)
  ELSE IF t.pc = 131
       THEN Step(132, createOffer(s),
                 <<[topic |-> OFFER_TOPIC, payload |-> SDP]>>, FALSE)
  ELSE IF CanSetLocal(s, "offer")
       THEN Step(0, setLocalDescription(s, "offer"), <<>>, FALSE)
       ELSE Raise(s)

\* WebRTCClient.create_offer, c_end.py:130-133
create_offer(t, s, ok) ==
  IF ~EngineOk(s, ok) THEN Raise(s)
  ELSE IF t.pc = 131 THEN Step(132, createOffer(s), <<>>, FALSE)
  ELSE IF CanSetLocal(s, "offer")
       THEN Step(0, setLocalDescription(s, "offer"),
                 <<[topic |-> OFFER_TOPIC, payload |-> SDP]>>, FALSE)
       ELSE Raise(s)

\* WebRTCClient.handle_answer, c_end.py:145-147
handle_answer(t, s, ok) ==
  IF EngineOk(s, ok) /\ WellFormed(t.sdp) /\ CanSetRemote(s, "answer")
  THEN Step(0, setRemoteDescription(s, "answer"), <<>>, FALSE)
  ELSE Raise(s)

\* a handle_offer that publishes the answer it created without setting it
\* as the local description
handle_offer_NoSetLocal(t, s, ok) ==
  IF ~EngineOk(s, ok) THEN Raise(s)
  ELSE IF t.pc = 88
       THEN IF WellFormed(t.sdp) /\ CanSetRemote(s, "offer")
            THEN Step(91, setRemoteDescription(s, "offer"), <<>>, FALSE)
            ELSE Raise(s)
  ELSE IF t.pc = 91
       THEN IF CanCreateAnswer(s) THEN Step(92, createAnswer(s), <<>>, FALSE)
            ELSE Raise(s)
  ELSE Step(0, s, <<[topic |-> ANSWER_TOPIC, payload |-> SDP]>>, FALSE)

\* WebRTCServer.handle_offer, s_end.py:86-95
handle_offer(t, s, ok) ==
  IF ~EngineOk(s, ok) THEN Raise(s)
  ELSE IF t.pc = 88
       THEN IF WellFormed(t.sdp) /\ CanSetRemote(s, "offer")
            THEN Step(91, setRemoteDescription(s, "offer"), <<>>, FALSE)
            ELSE Raise(s)
  ELSE IF t.pc = 91
       THEN IF CanCreateAnswer(s) THEN Step(92, createAnswer(s), <<>>, FALSE)
            ELSE Raise(s)
  ELSE IF CanSetLocal(s, "answer")
       THEN Step(0, setLocalDescription(s, "answer"),
                 <<[topic |-> ANSWER_TOPIC, payload |-> SDP]>>, FALSE)
       ELSE Raise(s)

Coroutine(t, s, ok) ==
  IF t.kind = "create_offer" THEN create_offer(t, s, ok)
  ELSE IF t.kind = "handle_answer" THEN handle_answer(t, s, ok)
  ELSE handle_offer(t, s, ok)

\* the queued callback runs: it wraps its coroutine in a task
Callback(cb) ==
  IF cb.fn = "create_offer_task" THEN create_offer_task
  ELSE IF cb.fn = "handle_answer_task" THEN handle_answer_task(cb.sdp)
  ELSE handle_offer_task(cb.sdp)

RemoveAt(q, i) == [j \in 1..(Len(q) - 1) |-> IF j < i THEN q[j] ELSE q[j + 1]]

\* the broker forwards a published message to every connected subscriber
Route(box, msg) ==
  [x \in E |-> IF connected[x] /\ msg.topic \in subs[x]
               THEN Append(box[x], msg) ELSE box[x]]

RECURSIVE RouteAll(_, _)
RouteAll(box, msgs) ==
  IF msgs = <<>> THEN box ELSE RouteAll(Route(box, Head(msgs)), Tail(msgs))

\* mqtt_client.publish(topic, payload) for each message of out: fire and
\* forget; the message reaches the broker only over a live connection
publish(e, out) ==
  /\ published' = [published EXCEPT ![e] = @ + Len(out)]
  /\ inbox' = IF connected[e] THEN RouteAll(inbox, out) ELSE inbox

LoopRunning(e) == loop[e] = "running"

\* ---- actions

\* __main__: start_signaling() (connect, loop_start), then loop.run_forever()
StartSignaling(e) ==
  /\ main[e] = "start"
  /\ main' = [main EXCEPT ![e] = "run_forever"]
  /\ net' = [net EXCEPT ![e] = "running"]
  /\ loop' = [loop EXCEPT ![e] = "running"]
  /\ UNCHANGED <<connected, connects, subs, inbox, loopq, tasks, sess,
                 published, rx, failed, injected, foreign>>
  /\ UNCHANGED <<audio_vars, play_vars, ice>>

\* the broker acknowledges a (re)connection: the bus thread runs on_connect
NetConnect(e) ==
  /\ net[e] = "running"
  /\ ~connected[e]
  /\ connects[e] < MaxConnects
  /\ connected' = [connected EXCEPT ![e] = TRUE]
  /\ connects' = [connects EXCEPT ![e] = @ + 1]
  /\ subs' = [subs EXCEPT ![e] = IF e = "S" THEN WebRTCServer_on_connect(@) ELSE @]
  /\ loopq' = [loopq EXCEPT ![e] = IF e = "C" THEN WebRTCClient_on_connect(@) ELSE @]
  /\ UNCHANGED <<main, loop, net, inbox, tasks, sess, published, rx, failed,
                 injected, foreign>>
  /\ UNCHANGED <<audio_vars, play_vars, ice>>

\* the connection to the broker is lost (the bus client reconnects by
\* itself); the session at the broker is a clean one, its subscriptions go
NetDrop(e) ==
  /\ net[e] = "running"
  /\ connected[e]
  /\ connects[e] < MaxConnects
  /\ connected' = [connected EXCEPT ![e] = FALSE]
  /\ subs' = [subs EXCEPT ![e] = {}]
  /\ UNCHANGED <<main, loop, net, connects, inbox, loopq, tasks, sess,
                 published, rx, failed, injected, foreign>>
  /\ UNCHANGED <<audio_vars, play_vars, ice>>

\* the bus thread hands the next forwarded message to on_message
Deliver(e) ==
  /\ net[e] = "running"
  /\ inbox[e] # <<>>
  /\ on_message(e, Head(inbox[e]))
  /\ inbox' = [inbox EXCEPT ![e] = Tail(@)]
  /\ UNCHANGED <<main, loop, connected, connects, subs, failed, injected,
                 foreign>>
  /\ UNCHANGED <<audio_vars, play_vars>>

\* open environment: the bus thread invokes the registered on_message
\* callback with any message
CallOnMessage(e) ==
  /\ net[e] = "running"
  /\ injected[e] < MaxMsgs
  /\ injected' = [injected EXCEPT ![e] = @ + 1]
  /\ \E msg \in Messages : on_message(e, msg)
  /\ UNCHANGED <<main, loop, connected, connects, subs, inbox, failed,
                 foreign>>
  /\ UNCHANGED <<audio_vars, play_vars>>

\* another participant of the bus publishes a message on one of the topics
ForeignPublish(topics, payloads, max) ==
  /\ foreign < max
  /\ foreign' = foreign + 1
  /\ \E msg \in [topic : topics, payload : payloads] : inbox' = Route(inbox, msg)
  /\ UNCHANGED <<main, loop, net, connected, connects, subs, loopq, tasks,
                 sess, published, rx, failed, injected>>
  /\ UNCHANGED <<audio_vars, play_vars, ice>>

\* the event loop runs the next callback queued by call_soon_threadsafe.
\* A task made while the close is waiting on the ready queue takes its first
\* step behind the close, so the callback is taken here after that step.
RunCallback(e) ==
  /\ LoopRunning(e)
  /\ main[e] # "run_until_complete"
  /\ loopq[e] # <<>>
  /\ tasks' = [tasks EXCEPT ![e] = Append(@, Callback(Head(loopq[e])))]
  /\ loopq' = [loopq EXCEPT ![e] = Tail(@)]
  /\ UNCHANGED <<main, loop, net, connected, connects, subs, inbox, sess,
                 published, rx, failed, injected, foreign>>
  /\ UNCHANGED <<audio_vars, play_vars, ice>>

\* the event loop resumes one task up to its next await; oks are the
\* answers the transport engine may give to the operation awaited
RunTask(e, oks) ==
  /\ LoopRunning(e)
  /\ \E i \in 1..Len(tasks[e]), ok \in oks :
       LET r == Coroutine(tasks[e][i], sess[e], ok)
       IN  /\ tasks' = [tasks EXCEPT ![e] =
                          IF r.pc = 0 THEN RemoveAt(@, i)
                          ELSE [@ EXCEPT ![i].pc = r.pc]]
           /\ sess' = [sess EXCEPT ![e] = r.sess]
           /\ failed' = [failed EXCEPT ![e] = IF r.raised THEN @ + 1 ELSE @]
           /\ publish(e, r.out)
  /\ UNCHANGED <<main, loop, net, connected, connects, subs, loopq, rx,
                 injected, foreign>>
  /\ UNCHANGED <<audio_vars, play_vars, ice>>

\* ---- shutdown: the finally block of __main__ (c_end.py:186-204,
\* s_end.py:107-121)

\* KeyboardInterrupt leaves loop.run_forever()
Interrupt(e) ==
  /\ main[e] = "run_forever"
  /\ main' = [main EXCEPT ![e] = "loop_stop"]
  /\ loop' = [loop EXCEPT ![e] = "stopped"]
  /\ UNCHANGED <<net, connected, connects, subs, inbox, loopq, tasks, sess,
                 published, rx, failed, injected, foreign>>
  /\ UNCHANGED <<audio_vars, play_vars, ice>>

\* mqtt_client.loop_stop(): the network thread is joined
TdLoopStop(e) ==
  /\ main[e] = "loop_stop"
  /\ main' = [main EXCEPT ![e] = "disconnect"]
  /\ net' = [net EXCEPT ![e] = "stopped"]
  /\ UNCHANGED <<loop, connected, connects, subs, inbox, loopq, tasks, sess,
                 published, rx, failed, injected, foreign>>
  /\ UNCHANGED <<audio_vars, play_vars, ice>>

\* mqtt_client.disconnect()
TdDisconnect(e) ==
  /\ main[e] = "disconnect"
  /\ main' = [main EXCEPT ![e] = "close"]
  /\ connected' = [connected EXCEPT ![e] = FALSE]
  /\ subs' = [subs EXCEPT ![e] = {}]
  /\ UNCHANGED <<loop, net, connects, inbox, loopq, tasks, sess, published,
                 rx, failed, injected, foreign>>
  /\ UNCHANGED <<audio_vars, play_vars, ice>>

\* loop.run_until_complete(pc.close()) starts: the close is wrapped in a
\* task that is put behind everything already on the loop's ready queue,
\* and the loop runs again
TdRunUntilComplete(e) ==
  /\ main[e] = "close"
  /\ main' = [main EXCEPT ![e] = "run_until_complete"]
  /\ loop' = [loop EXCEPT ![e] = "running"]
  /\ UNCHANGED <<net, connected, connects, subs, inbox, loopq, tasks, sess,
                 published, rx, failed, injected, foreign>>
  /\ UNCHANGED <<audio_vars, play_vars, ice>>

\* the first step of pc.close(): from here on the connection refuses
\* further operations
TdCloseBegin(e) ==
  /\ main[e] = "run_until_complete"
  /\ main' = [main EXCEPT ![e] = "closing"]
  /\ sess' = [sess EXCEPT ![e].state = "closing"]
  /\ UNCHANGED loop
  /\ UNCHANGED <<net, connected, connects, subs, inbox, loopq, tasks,
                 published, rx, failed, injected, foreign>>
  /\ UNCHANGED <<audio_vars, play_vars, ice>>

\* a finally block that leaves the capture device open
after_close_NoAudioStop(e) == "loop_close"

\* the statement that follows the close of the connection: the Caller stops
\* its capture device (c_end.py:199), the Responder has none (s_end.py:119)
after_close(e) == IF e = "C" THEN "audio_stop" ELSE "loop_close"

\* pc.close() completes and run_until_complete returns
TdCloseEnd(e) ==
  /\ main[e] = "closing"
  /\ main' = [main EXCEPT ![e] = after_close(e)]
  /\ loop' = [loop EXCEPT ![e] = "stopped"]
  /\ sess' = [sess EXCEPT ![e].state = "closed"]
  /\ UNCHANGED <<net, connected, connects, subs, inbox, loopq, tasks,
                 published, rx, failed, injected, foreign>>
  /\ UNCHANGED <<audio_vars, play_vars, ice>>

\* client.audio_track.stop(), c_end.py:199
TdAudioStop ==
  /\ main["C"] = "audio_stop"
  /\ stop
  /\ main' = [main EXCEPT !["C"] = IF stop_raised' THEN "exited" ELSE "loop_close"]
  /\ UNCHANGED <<loop, net, connected, connects, subs, inbox, loopq, tasks,
                 sess, published, rx, failed, injected, foreign>>
  /\ UNCHANGED <<play_vars, ice>>

\* loop.close()
TdLoopClose(e) ==
  /\ main[e] = "loop_close"
  /\ main' = [main EXCEPT ![e] = "exited"]
  /\ loop' = [loop EXCEPT ![e] = "closed"]
  /\ UNCHANGED <<net, connected, connects, subs, inbox, loopq, tasks, sess,
                 published, rx, failed, injected, foreign>>
  /\ UNCHANGED <<audio_vars, play_vars, ice>>

\* -------------------------------------------------------------- playback
\* the inbound tracks the transport engine can report
Tracks == {[id |-> "a1", kind |-> "audio"], [id |-> "v1", kind |-> "video"]}
TrackIds == {t.id : t \in Tracks}

PlayInit ==
  /\ players = [e \in E |-> <<>>]
  /\ player_task = [e \in E |-> 0]
  /\ notified = [e \in E |-> 0]
  /\ outputs = [e \in E |-> 0]
  /\ trk_next = [e \in E |-> [t \in TrackIds |-> 0]]

\* asyncio.create_task(self.play_audio(track)): the task before its first step
play_audio_task(track) ==
  [track |-> track.id, pc |-> 99, pulled |-> <<>>, written |-> <<>>,
   released |-> 0]

\* on_track, c_end.py:89-93 and s_end.py:36-40: the new list of playback tasks
on_track(ps, track) ==
  IF track.kind = "audio" THEN Append(ps, play_audio_task(track)) ELSE ps

\* the transport engine reports an inbound track
OnTrack(e) ==
  /\ notified[e] < MaxNotify
  /\ notified' = [notified EXCEPT ![e] = @ + 1]
  /\ \E track \in Tracks :
       /\ players' = [players EXCEPT ![e] = on_track(@, track)]
       /\ player_task' = [player_task EXCEPT ![e] =
                            IF track.kind = "audio" THEN Len(players[e]) + 1 ELSE @]
  /\ UNCHANGED <<outputs, trk_next>>
  /\ UNCHANGED <<audio_vars, sig_vars>>

\* what an iteration of the loop at lines 105-111 can meet
PullOutcomes(e, t) ==
  IF trk_next[e][t] < MaxFrames THEN {"ok", "recv_raises", "write_raises"}
  ELSE {"recv_raises"}

\* a loop that reports the error and goes on pulling
on_failure_Continue(t, frames) == [t EXCEPT !.pulled = frames]

\* except Exception: break (c_end.py:109-111): the task leaves the loop for
\* the release at lines 113-115; frames are the frames recv() has returned
on_failure(t, frames) == [t EXCEPT !.pulled = frames, !.pc = 113]

\* play_audio, c_end.py:98-115 and s_end.py:43-61, one step per await
PlayStep(e) ==
  \E i \in 1..Len(players[e]) :
    LET t == players[e][i] IN
    /\ t.pc # 0
    /\ IF t.pc = 99
       THEN \* lines 99-103: open the output device
            /\ outputs' = [outputs EXCEPT ![e] = @ + 1]
            /\ players' = [players EXCEPT ![e][i].pc = 107]
            /\ UNCHANGED trk_next
       ELSE IF t.pc = 107
       THEN \* lines 105-111: pull one frame and write it
            \E o \in PullOutcomes(e, t.track) :
              /\ trk_next' = [trk_next EXCEPT ![e][t.track] =
                                IF o = "recv_raises" THEN @ ELSE @ + 1]
              /\ players' = [players EXCEPT ![e][i] =
                   LET f == trk_next[e][t.track] + 1 IN
                   IF o = "ok"
                   THEN [t EXCEPT !.pulled = Append(@, f),
                                  !.written = Append(@, f)]
                   ELSE IF o = "write_raises"
                   THEN on_failure(t, Append(t.pulled, f))
                   ELSE on_failure(t, t.pulled)]
              /\ UNCHANGED outputs
       ELSE \* lines 113-115: stop_stream, close, terminate
            /\ players' = [players EXCEPT ![e][i] =
                             [t EXCEPT !.pc = 0, !.released = @ + 1]]
            /\ UNCHANGED <<outputs, trk_next>>
    /\ UNCHANGED <<player_task, notified>>
    /\ UNCHANGED <<audio_vars, sig_vars>>

\* ------------------------------------------------------- specifications
Init == AudioInit /\ SigInit /\ PlayInit

NextPTT ==
  \/ RecvCall
  \/ RecvTimestamp
  \/ RecvAcquire
  \/ RecvBody
  \/ KbdPoll
  \/ KbdAcquire
  \/ KbdWrite
  \/ KbdRelease
  \/ AudioStop

\* the audio track against the keyboard thread and the owner's stop()
SpecPTT == Init /\ [][NextPTT]_vars

\* one endpoint's handlers in an open environment: the bus thread may call
\* on_connect again after a lost connection and on_message with any message
NextOpen(e) ==
  \/ StartSignaling(e)
  \/ NetConnect(e)
  \/ NetDrop(e)
  \/ CallOnMessage(e)
  \/ RunCallback(e)
  \/ RunTask(e, BOOLEAN)

SpecCaller == Init /\ [][NextOpen("C")]_vars
SpecResponder == Init /\ [][NextOpen("S")]_vars

\* either endpoint, alone in an open environment: the handlers of the two
\* programs, each run against every connect and every message
Other(e) == IF e = "C" THEN "S" ELSE "C"
Alone(e) == main[Other(e)] = "start"
NextEndpoint ==
  \/ \E e \in E : Alone(e) /\ StartSignaling(e)
  \/ \E e \in E : Alone(e) /\ NetConnect(e)
  \/ \E e \in E : Alone(e) /\ NetDrop(e)
  \/ \E e \in E : Alone(e) /\ CallOnMessage(e)
  \/ \E e \in E : Alone(e) /\ RunCallback(e)
  \/ \E e \in E : Alone(e) /\ RunTask(e, BOOLEAN)
SpecEndpoint == Init /\ [][NextEndpoint]_vars

\* both processes and the broker between them, from start to exit: the two
\* endpoints are the only participants of the bus
Next ==
  \/ \E e \in E : StartSignaling(e)
  \/ \E e \in E : NetConnect(e)
  \/ \E e \in E : NetDrop(e)
  \/ \E e \in E : Deliver(e)
  \/ \E e \in E : RunCallback(e)
  \/ \E e \in E : RunTask(e, BOOLEAN)
  \/ \E e \in E : Interrupt(e)
  \/ \E e \in E : TdLoopStop(e)
  \/ \E e \in E : TdDisconnect(e)
  \/ \E e \in E : TdRunUntilComplete(e)
  \/ \E e \in E : TdCloseBegin(e)
  \/ \E e \in E : TdCloseEnd(e)
  \/ TdAudioStop
  \/ \E e \in E : TdLoopClose(e)

Spec == Init /\ [][Next]_vars

\* inbound tracks and their playback tasks
NextPlay ==
  \/ \E e \in E : OnTrack(e)
  \/ \E e \in E : PlayStep(e)

SpecPlay == Init /\ [][NextPlay]_vars

\* the playback tasks of either endpoint, the other one receiving no track
NextSink ==
  \/ \E e \in E : notified[Other(e)] = 0 /\ OnTrack(e)
  \/ \E e \in E : notified[Other(e)] = 0 /\ PlayStep(e)
SpecSink == Init /\ [][NextSink]_vars

\* the description exchange on a healthy bus: the Responder is connected and
\* subscribed before the Caller's connection is acknowledged (so before the
\* Caller publishes), each endpoint connects once and keeps its connection,
\* the engine accepts every operation, nobody shuts down; the only other
\* traffic is candidate text on the ice topic
LiveStart == \E e \in E : StartSignaling(e)
LiveConnect ==
  \E e \in E : /\ connects[e] = 0
               /\ e = "C" => OFFER_TOPIC \in subs["S"]
               /\ NetConnect(e)
LiveDeliver == \E e \in E : Deliver(e)
LiveRunCallback == \E e \in E : RunCallback(e)
LiveRunTask == \E e \in E : RunTask(e, {TRUE})
LiveIce == ForeignPublish({ICE_TOPIC}, {"candidate", ""}, MaxIce)

NextLive ==
  \/ LiveStart
  \/ LiveConnect
  \/ LiveDeliver
  \/ LiveRunCallback
  \/ LiveRunTask
  \/ LiveIce

\* weak fairness: the processes start, the broker answers and forwards, the
\* bus threads and both event loops keep running what is ready
SpecLive ==
  /\ Init /\ [][NextLive]_vars
  /\ WF_vars(LiveStart)
  /\ WF_vars(LiveConnect) /\ WF_vars(LiveDeliver)
  /\ WF_vars(LiveRunCallback) /\ WF_vars(LiveRunTask)

\* ------------------------------------------------------------------ claims

\* C1 as stated: every returned frame is all-zero exactly when the gate
\* value at the time of the read (the argument of the most recent completed
\* set_ptt, false initially) is false.
C1_ZeroIffGateClosed ==
  frame # NoFrame => (AllZero(frame.planes) <=> ~g_read_gate)

\* C1 amended: a pull that reads the gate closed returns the all-zero frame
\* and one that reads it open returns exactly the chunk the device handed
\* over (which is all-zero only when the device's chunk is).
C1_GateSelectsSource ==
  frame # NoFrame =>
    IF g_read_gate
    THEN g_data \in DeviceChunks /\ frame.planes = g_data
    ELSE g_data = NoData /\ frame.planes = SilenceBytes

\* a pull after set_ptt(True) returned non-silent device samples, and the
\* keyboard thread is in the middle of a later set_ptt(False)
C1_Witness ==
  /\ frame # NoFrame
  /\ g_read_gate
  /\ ~AllZero(frame.planes)
  /\ pulls >= 2
  /\ kbd_pc = "65" /\ kbd_arg = FALSE

Idle(e) == loopq[e] = <<>> /\ tasks[e] = <<>>

\* C2: a Responder that was handed exactly one offer and whose handler ran
\* to its end with every engine operation succeeding has both descriptions
\* set (Negotiating) and has published exactly one answer.
C2_OneOfferOneAnswer ==
  (rx["S"] = 1 /\ Idle("S") /\ failed["S"] = 0) =>
    /\ sess["S"].remote /\ sess["S"].local /\ sess["S"].state = "open"
    /\ sess["S"].sig = "stable"
    /\ sess["S"].nRemote = 1 /\ sess["S"].nLocal = 1
    /\ published["S"] = 1

\* the Responder has handled its one offer to the end
C2_Witness ==
  /\ rx["S"] = 1 /\ Idle("S") /\ failed["S"] = 0
  /\ injected["S"] = MaxMsgs
  /\ published["S"] = 1

\* C3 as stated: whatever offers are delivered to the Responder, the total
\* number of answers it publishes is at most one (an offer that arrives
\* once the Session is Negotiating is rejected).
C3_AtMostOneAnswer == published["S"] <= 1

\* C4 as stated: once the Caller has applied the answer as its remote
\* description it publishes no further offer.
C4_NoOfferAfterAnswer ==
  [][sess["C"].remote => published'["C"] = published["C"]]_vars

\* C5 as stated: on a healthy bus the exchange completes: one offer, one
\* answer, and the answer applied as the Caller's remote description.
C5_ExchangeCompletes ==
  <>(published["C"] = 1 /\ published["S"] = 1 /\ sess["C"].remote)

\* C6 as stated: a connected Responder is subscribed to the offer and ice
\* topics; a connected Caller is subscribed to the answer topic and not to
\* the offer topic.
C6_Subscriptions ==
  /\ connected["S"] => {OFFER_TOPIC, ICE_TOPIC} \subseteq subs["S"]
  /\ connected["C"] => ANSWER_TOPIC \in subs["C"]
  /\ OFFER_TOPIC \notin subs["C"]

\* C7 as stated: however often the bus (re)connects, the Caller performs one
\* createOffer/setLocalDescription/publish round and publishes one offer.
C7_AtMostOneOffer ==
  published["C"] <= 1 /\ sess["C"].nLocal <= 1

\* C8 as stated: after two stop() invocations no error was raised and the
\* stream was stopped and closed and the device terminated exactly once.
C8_StopTwiceReleasesOnce ==
  stops = 2 =>
    /\ ~stop_raised
    /\ stop_stream_calls = 1 /\ close_calls = 1 /\ terminate_calls = 1

\* C9: on both endpoints the close of the connection starts only after the
\* bus thread is stopped and the client disconnected, the capture device is
\* stopped only after the close has completed (Caller), and the event loop
\* is closed only after all of these.
C9_OrderedTeardown ==
  \A e \in E :
    /\ sess[e].state # "open" => net[e] = "stopped" /\ ~connected[e]
    /\ (e = "C" /\ stops > 0) => sess[e].state = "closed"
    /\ loop[e] = "closed" =>
         /\ sess[e].state = "closed"
         /\ e = "C" => stream = "closed"

\* both processes have run their finally block to the end
C9_Witness ==
  /\ \A e \in E : main[e] = "exited" /\ loop[e] = "closed"
  /\ stream = "closed"

\* C10 as stated: no inbound track ever has more than one playback task
\* bound to it, and no more output devices are opened than there are tracks
\* with a task.
C10_OneConsumerPerTrack ==
  \A e \in E :
    /\ \A t \in TrackIds :
         Cardinality({i \in 1..Len(players[e]) : players[e][i].track = t}) <= 1
    /\ outputs[e] <= Cardinality({players[e][i].track : i \in 1..Len(players[e])})

\* C11: the bus callbacks never operate on the Session themselves.  A step of
\* the bus thread (on_connect, on_message) leaves the Session, the tasks and
\* the published messages as they are and at most appends to the loop's
\* callback queue; every step that changes the Session or publishes is the
\* step of a task on the running event loop, and every task was made from
\* the head of that queue.
BusStep(e) ==
  \/ connects'[e] # connects[e]
  \/ rx'[e] # rx[e]
  \/ injected'[e] # injected[e]
  \/ ice'[e] # ice[e]
  \/ net[e] = "running" /\ net'[e] = "dead"
IsPrefix(p, q) == Len(p) <= Len(q) /\ SubSeq(q, 1, Len(p)) = p
C11_SingleWriterHandoff ==
  [][\A e \in E :
       /\ BusStep(e) =>
            /\ sess'[e] = sess[e]
            /\ tasks'[e] = tasks[e]
            /\ published'[e] = published[e]
            /\ IsPrefix(loopq[e], loopq'[e])
       /\ (sess'[e] # sess[e] \/ published'[e] # published[e]) =>
            /\ LoopRunning(e)
            /\ tasks[e] # <<>>
            /\ tasks'[e] # tasks[e]
            /\ loopq'[e] = loopq[e]
       /\ Len(tasks'[e]) > Len(tasks[e]) =>
            /\ loopq[e] # <<>>
            /\ loopq'[e] = Tail(loopq[e])
            /\ tasks'[e] = Append(tasks[e], Callback(Head(loopq[e])))]_vars
C11_Witness ==
  \E e \in E : /\ rx[e] >= 1
                /\ connects[e] >= 1
                /\ sess[e].remote
                /\ loopq[e] = <<>>

\* C12: a negotiation error is rejected without a crash and without a change
\* of state: a step in which a handler fails leaves the Session as it was
\* and publishes nothing, and no inbound message stops the endpoint from
\* handling later ones (its bus thread keeps running).
C12_RejectKeepsState ==
  [][\A e \in E :
       /\ failed'[e] > failed[e] =>
            /\ sess'[e] = sess[e]
            /\ published'[e] = published[e]
       /\ net[e] = "running" => net'[e] = "running"]_vars

\* C13: no two Session transitions interleave: on each endpoint at most one
\* negotiation handler is between its first and its last step.
Started(t) == t.pc # Callback([fn |-> t.kind \o "_task", sdp |-> t.sdp]).pc
C13_NoInterleaving ==
  \A e \in E : Cardinality({i \in 1..Len(tasks[e]) : Started(tasks[e][i])}) <= 1

\* C14: on each endpoint's Session setLocalDescription is invoked at most
\* once and setRemoteDescription at most once, and the Caller applies a
\* remote description only after its local offer was set and published.
C14_SetOncePerDirection ==
  /\ \A e \in E : sess[e].nLocal <= 1 /\ sess[e].nRemote <= 1
  /\ sess["C"].nRemote > 0 => sess["C"].local /\ published["C"] >= 1

\* C15: every publish follows the operations that make its description.
\* The step that publishes is the step of a handler at its last statement
\* that has just set the description as the local one; each answer the
\* Responder has set or is about to set was created after its offer was
\* applied, each offer the Caller has set or is about to set was created
\* first, and no endpoint has published more descriptions than it has set.
AtLine(e, line) == Cardinality({i \in 1..Len(tasks[e]) : tasks[e][i].pc = line})
C15_OrderInv ==
  /\ \A e \in E : published[e] = sess[e].nLocal
  /\ sess["S"].nCreate >= sess["S"].nLocal + AtLine("S", 92)
  /\ sess["S"].nRemote >= sess["S"].nCreate + AtLine("S", 91)
  /\ sess["C"].nCreate >= sess["C"].nLocal + AtLine("C", 132)
C15_Witness ==
  \E e \in E : published[e] >= 1 /\ sess[e].nCreate >= 1 /\ sess[e].local

\* C16: Closed is terminal: once the signaling client has been stopped no
\* signaling message is published, and once the close of the Session has
\* begun no handler creates or sets a description.
C16_ClosedIsTerminal ==
  [][\A e \in E :
       /\ net[e] = "stopped" => published'[e] = published[e]
       /\ sess[e].state # "open" =>
            /\ sess'[e].nLocal = sess[e].nLocal
            /\ sess'[e].nRemote = sess[e].nRemote
            /\ sess'[e].nCreate = sess[e].nCreate
            /\ sess'[e].sig = sess[e].sig]_vars

\* C17: a playback task writes the frames it pulled in the order it pulled
\* them, each once (only the frame of a failed write is missing, and it is
\* the last one pulled); after the first failed pull or write it pulls and
\* writes nothing more, releases the output device exactly once and ends;
\* no step of it touches the Session or the rest of the process.
Increasing(q) == \A i, j \in 1..Len(q) : i < j => q[i] < q[j]
C17_Player(t) ==
  /\ Increasing(t.pulled)
  /\ IsPrefix(t.written, t.pulled)
  /\ Len(t.pulled) <= Len(t.written) + 1
  /\ Len(t.pulled) > Len(t.written) => t.pc \in {113, 0}
  /\ t.released = IF t.pc = 0 THEN 1 ELSE 0
C17_PlaybackSink ==
  [][\A e \in E :
       /\ \A i \in 1..Len(players'[e]) : C17_Player(players'[e][i])
       /\ \A i \in 1..Len(players[e]) :
            players[e][i].pc \in {113, 0} =>
              /\ players'[e][i].pulled = players[e][i].pulled
              /\ players'[e][i].written = players[e][i].written
              /\ players'[e][i].pc \in {players[e][i].pc, 0}
       /\ players'[e] # players[e] => sig_vars' = sig_vars]_vars
C17_Witness ==
  \E e \in E : \E i \in 1..Len(players[e]) :
    /\ players[e][i].pc = 0
    /\ Len(players[e][i].written) >= 1
    /\ Len(players[e][i].pulled) > Len(players[e][i].written)
    /\ players[e][i].released = 1

\* C18: inbound candidate messages are ignored on both endpoints: a step in
\* which on_message takes a message of the ice-candidate topic, whatever its
\* payload, queues no callback, starts no task, leaves the Session as it is
\* and publishes nothing; so does a step in which the payload cannot be
\* decoded.
C18_IceIgnored ==
  [][\A e \in E :
       (ice'[e] # ice[e] \/ (net[e] = "running" /\ net'[e] = "dead")) =>
         /\ loopq'[e] = loopq[e]
         /\ tasks'[e] = tasks[e]
         /\ sess'[e] = sess[e]
         /\ published'[e] = published[e]
         /\ rx'[e] = rx[e]]_vars
C18_Witness == \E e \in E : ice[e] >= 1 /\ net[e] = "running" /\ connects[e] >= 1

\* C19: the gate lock is never held across a suspension point of recv().
\* recv holds the lock exactly while it is in the synchronous block after
\* line 39: not before the call, not while it awaits the timestamp at line
\* 37, and not after it has returned or raised; so whenever set_ptt waits
\* for the lock, recv is inside that block and no other task is running.
C19_LockNotHeldAcrossAwait ==
  /\ lock = "recv" <=> recv_pc = "40"
  /\ recv_pc \in {"idle", "37"} => lock \in {"free", "kbd"}
  /\ (kbd_pc = "63" /\ lock # "free") => recv_pc = "40"
C19_Witness ==
  /\ kbd_pc = "63"
  /\ lock = "recv"
  /\ calls >= 2
  /\ pulls >= 1

\* C20: while the gate is closed the capture device is not read.  The
\* synchronous block of a pull that finds is_active false reads nothing and
\* returns the silent frame; the block of a pull that finds it true reads
\* exactly once; nothing else reads the device.  So the number of device
\* reads is the number of pulls that observed the gate open.
BodyStep == recv_pc = "40" /\ recv_pc' = "idle"
C20_NoReadWhileGateClosed ==
  [][/\ (BodyStep /\ ~is_active) =>
          /\ reads' = reads
          /\ frame' = AudioFrame(SilenceBytes, pts)
     /\ (BodyStep /\ is_active) => reads' = reads + 1
     /\ reads' # reads => BodyStep /\ is_active
     /\ recv_pc = "40" => is_active' = is_active]_vars
C20_Witness ==
  /\ recv_pc = "idle"
  /\ reads = 1
  /\ pulls >= 2
  /\ ~is_active
  /\ frame = AudioFrame(SilenceBytes, pts)

====
